---- MODULE Spec2Model ----
(***************************************************************************)
(* Model of metaflow/runner/signal_manager.py: the SignalManager class.    *)
(*                                                                         *)
(* signal_map and replaced_signals are class attributes (lines 10-11):     *)
(* every instance reads and mutates the same two dictionaries, so they are *)
(* one variable each, not one per manager.  Dictionaries keep insertion    *)
(* order, which __exit__ iterates in, so the key order of signal_map is    *)
(* part of the state.  A delivery is split at the handler calls: the set   *)
(* iterator of _handle_signal is advanced one step at a time and handlers  *)
(* (callbacks) may call back into the manager between two steps.           *)
(*                                                                         *)
(* The event loop is not part of the module: of loop.add_signal_handler    *)
(* and loop.remove_signal_handler the model keeps the loop's table of      *)
(* watchers (one callback per signal, removal of a missing one is quiet).  *)
(* All managers in event-loop mode use the same loop.                      *)
(***************************************************************************)
EXTENDS Integers, Sequences, FiniteSets, TLC

\* Bounds of the model.
MaxManagers == 2
NumSignals == 2
NumHandlers == 2
\* Calls a delivery's handlers make back into the manager, per delivery.
MaxReentrant == 1

Managers == 1..MaxManagers
Signals == 1..NumSignals
Handlers == 1..NumHandlers

VARIABLES
    event_loop,        \* per manager: "unconstructed", "None" (direct mode) or "loop"
    signal_map,        \* class-level dict: signal -> set of handlers
    signal_map_order,  \* insertion order of the keys of signal_map
    replaced_signals,  \* class-level dict: signal -> disposition replaced
    disposition,       \* the process's disposition of every signal (signal.signal)
    watchers,          \* the event loop's signal watchers: signal -> manager
    flight,            \* the delivery in progress or just finished
    last,              \* the call made by the last step and how it ended
    installs           \* history: number of hook installations per manager and signal

vars == <<event_loop, signal_map, signal_map_order, replaced_signals,
          disposition, watchers, flight, last, installs>>

\* ---------------------------------------------------------------- values

\* The dispositions a process starts with: signal.signal has not been called
\* yet.  Neighbouring signals start with different ones, so that restoring
\* the disposition of another signal, or a fixed one, shows.
SIG_DFL == [kind |-> "SIG_DFL", self |-> 0]
SIG_IGN == [kind |-> "SIG_IGN", self |-> 0]
OriginalDisposition(sig) == IF sig % 2 = 1 THEN SIG_DFL ELSE SIG_IGN

\* The bound method self._handle_signal of one manager.
Trampoline(self) == [kind |-> "_handle_signal", self |-> self]

\* dict[k] = v and del dict[k]
Put(dict, k, v) == [x \in (DOMAIN dict) \cup {k} |-> IF x = k THEN v ELSE dict[x]]
Del(dict, k) == [x \in (DOMAIN dict) \ {k} |-> dict[x]]
EmptyDict == [x \in {} |-> 0]

NoFlight ==
    [status |-> "idle", self |-> 0, sig |-> 0, used |-> 0, todo |-> {},
     calls |-> <<>>, raised |-> FALSE, mutated |-> FALSE, reentered |-> 0]

\* member: the handler was in the set of the signal when the call was made.
Call(op, self, sig, handler, member, result) ==
    [op |-> op, self |-> self, sig |-> sig, handler |-> handler,
     member |-> member, result |-> result]

IsMember(sig, handler) == sig \in DOMAIN signal_map /\ handler \in signal_map[sig]

\* The process-wide state that _add_signal_handler and
\* _remove_signal_handler work on.
Hooks == [replaced_signals |-> replaced_signals, disposition |-> disposition,
          watchers |-> watchers, err |-> "ok"]

\* ---------------------------------------------------------------- Init

Init ==
    /\ event_loop = [m \in Managers |-> "unconstructed"]
    /\ signal_map = EmptyDict
    /\ signal_map_order = <<>>
    /\ replaced_signals = EmptyDict
    /\ disposition = [sig \in Signals |-> OriginalDisposition(sig)]
    /\ watchers = EmptyDict
    /\ flight = NoFlight
    /\ last = Call("import", 0, 0, 0, FALSE, "ok")
    /\ installs = [p \in Managers \X Signals |-> 0]

\* ---------------------------------------------------------------- __init__

\* event_loop or asyncio.get_running_loop(), None on RuntimeError
init_event_loop(arg, running) ==
    IF arg # "None" THEN arg ELSE IF running THEN "loop" ELSE "None"

\* API calls are made from the owning thread: outside a delivery, or from a
\* handler that the delivery in progress has entered.
Idle == flight.status # "running"
InHandler ==
    /\ flight.status = "running"
    /\ Len(flight.calls) >= 1
    /\ flight.reentered < MaxReentrant

\* A finished delivery is forgotten at the next call; a delivery in progress
\* counts the call.
FlightAfterCall ==
    IF Idle THEN NoFlight ELSE [flight EXCEPT !.reentered = @ + 1]

construct(self, arg, running) ==
    /\ Idle
    /\ event_loop[self] = "unconstructed"
    /\ \A m \in Managers : m < self => event_loop[m] # "unconstructed"
    /\ event_loop' = [event_loop EXCEPT ![self] = init_event_loop(arg, running)]
    /\ flight' = NoFlight
    /\ last' = Call("construct", self, 0, 0, FALSE, "ok")
    /\ UNCHANGED <<signal_map, signal_map_order, replaced_signals, disposition,
                   watchers, installs>>

Constructed(self) == event_loop[self] # "unconstructed"

\* ---------------------------------------------------------------- hooks

_add_signal_handler(self, sig, st) ==
    IF event_loop[self] = "None"
    THEN [st EXCEPT !.disposition = [st.disposition EXCEPT ![sig] = Trampoline(self)],
                    !.replaced_signals = Put(st.replaced_signals, sig, st.disposition[sig])]
    ELSE [st EXCEPT !.watchers = Put(st.watchers, sig, self)]

_remove_signal_handler(self, sig, st) ==
    IF event_loop[self] = "None"
    THEN IF sig \notin DOMAIN st.replaced_signals
         THEN [st EXCEPT !.err = "KeyError"]
         ELSE [st EXCEPT !.disposition = [st.disposition EXCEPT ![sig] = st.replaced_signals[sig]],
                         !.replaced_signals = Del(st.replaced_signals, sig)]
    ELSE [st EXCEPT !.watchers = Del(st.watchers, sig)]

\* ---------------------------------------------------------------- add_signal_handler

\* Mutant of NeedsInstall: the membership test of line 57 is forgotten.
NeedsInstallAlways(sig) == TRUE

\* if sig not in self.signal_map
NeedsInstall(sig) == sig \notin DOMAIN signal_map

add_signal_handler(self, sig, handler) ==
    /\ Constructed(self)
    /\ Idle \/ InHandler
    /\ LET fresh == NeedsInstall(sig)
           map1 == IF fresh THEN Put(signal_map, sig, {}) ELSE signal_map
           st1 == IF fresh THEN _add_signal_handler(self, sig, Hooks) ELSE Hooks
           map2 == [map1 EXCEPT ![sig] = @ \cup {handler}]
           grows == ~Idle /\ flight.sig = sig /\ sig \in DOMAIN signal_map
                    /\ map2[sig] # signal_map[sig]
       IN  /\ signal_map' = map2
           /\ signal_map_order' =
                 IF sig \in DOMAIN signal_map THEN signal_map_order
                 ELSE Append(signal_map_order, sig)
           /\ replaced_signals' = st1.replaced_signals
           /\ disposition' = st1.disposition
           /\ watchers' = st1.watchers
           /\ installs' = IF fresh /\ installs[<<self, sig>>] < 2
                          THEN [installs EXCEPT ![<<self, sig>>] = @ + 1]
                          ELSE installs
           /\ IF grows
              THEN \E ahead \in BOOLEAN :
                     flight' = [FlightAfterCall EXCEPT !.mutated = TRUE,
                                  !.todo = IF ahead THEN @ \cup (map2[sig] \ signal_map[sig]) ELSE @]
              ELSE flight' = FlightAfterCall
    /\ last' = Call("add", self, sig, handler, IsMember(sig, handler), "ok")
    /\ UNCHANGED event_loop

\* ---------------------------------------------------------------- remove_signal_handler

\* Mutant of set_remove: the handler is removed from a copy of the set.
set_remove_from_copy(handlers, handler) ==
    [handlers |-> handlers, err |-> IF handler \in handlers THEN "ok" ELSE "KeyError"]

\* set.remove(handler): raises KeyError when handler is not a member
set_remove(handlers, handler) ==
    IF handler \in handlers
    THEN [handlers |-> handlers \ {handler}, err |-> "ok"]
    ELSE [handlers |-> handlers, err |-> "KeyError"]

\* Mutant of except_KeyError: the try/except of lines 77-80 is missing.
except_nothing(err) == err

\* except KeyError: pass
except_KeyError(err) == IF err = "KeyError" THEN "ok" ELSE err

\* Mutant of remove_signal_handler: removing the last handler of a signal also
\* uninstalls the hook of the signal.
remove_signal_handler_retracting(self, sig, handler) ==
    /\ Constructed(self)
    /\ Idle \/ InHandler
    /\ LET member == IsMember(sig, handler)
           emptied == member /\ signal_map[sig] = {handler}
           st == IF emptied THEN _remove_signal_handler(self, sig, Hooks) ELSE Hooks
       IN  /\ signal_map' = IF member THEN [signal_map EXCEPT ![sig] = @ \ {handler}]
                             ELSE signal_map
           /\ replaced_signals' = st.replaced_signals
           /\ disposition' = st.disposition
           /\ watchers' = st.watchers
           /\ last' = Call("remove", self, sig, handler, member, "ok")
           /\ flight' = IF ~Idle /\ flight.sig = sig /\ member
                        THEN [FlightAfterCall EXCEPT !.mutated = TRUE, !.todo = @ \ {handler}]
                        ELSE FlightAfterCall
    /\ UNCHANGED <<event_loop, signal_map_order, installs>>

remove_signal_handler(self, sig, handler) ==
    /\ Constructed(self)
    /\ Idle \/ InHandler
    /\ IF sig \notin DOMAIN signal_map
       THEN /\ last' = Call("remove", self, sig, handler, FALSE, "ok")
            /\ flight' = FlightAfterCall
            /\ UNCHANGED signal_map
       ELSE LET r == set_remove(signal_map[sig], handler)
                shrinks == ~Idle /\ flight.sig = sig /\ r.handlers # signal_map[sig]
            IN  /\ signal_map' = [signal_map EXCEPT ![sig] = r.handlers]
                /\ last' = Call("remove", self, sig, handler, IsMember(sig, handler),
                                  except_KeyError(r.err))
                /\ flight' = IF shrinks
                             THEN [FlightAfterCall EXCEPT !.mutated = TRUE, !.todo = @ \ {handler}]
                             ELSE FlightAfterCall
    /\ UNCHANGED <<event_loop, signal_map_order, replaced_signals, disposition,
                   watchers, installs>>

\* ---------------------------------------------------------------- __exit__

\* for sig in self.signal_map: self._remove_signal_handler(sig)
\* The first KeyError leaves the loop and __exit__.
RECURSIVE exit_remove_loop(_, _, _, _)
exit_remove_loop(self, order, i, st) ==
    IF i > Len(order) \/ st.err # "ok" THEN st
    ELSE exit_remove_loop(self, order, i + 1, _remove_signal_handler(self, order[i], st))

\* for sig in self.replaced_signals: signal.signal(sig, self.replaced_signals[sig])
exit_restore_loop(st) ==
    [st EXCEPT !.disposition =
        [s \in Signals |-> IF s \in DOMAIN st.replaced_signals
                           THEN st.replaced_signals[s] ELSE st.disposition[s]]]

exit(self) ==
    /\ Constructed(self)
    /\ Idle \/ InHandler
    /\ LET st1 == exit_remove_loop(self, signal_map_order, 1, Hooks)
           st2 == IF st1.err = "ok" THEN exit_restore_loop(st1) ELSE st1
       IN  /\ replaced_signals' = st2.replaced_signals
           /\ disposition' = st2.disposition
           /\ watchers' = st2.watchers
           /\ last' = Call("exit", self, 0, 0, FALSE, st2.err)
    /\ flight' = FlightAfterCall
    /\ UNCHANGED <<event_loop, signal_map, signal_map_order, installs>>

\* ---------------------------------------------------------------- _handle_signal

\* The managers whose _handle_signal a delivery of sig enters: through the
\* process's disposition (line 32) or through the loop's watcher (lines 35-37).
HookOwners(sig) ==
    {m \in Managers : \/ disposition[sig] = Trampoline(m)
                      \/ sig \in DOMAIN watchers /\ watchers[sig] = m}

\* HookOwners in the process-wide state st.
HookOwnersIn(st, sig) ==
    {m \in Managers : \/ st.disposition[sig] = Trampoline(m)
                      \/ sig \in DOMAIN st.watchers /\ st.watchers[sig] = m}

\* Mutant of add_signal_handler_points: lines 58 and 59 are swapped, the hook
\* is installed before the registry entry is created.
add_signal_handler_points_hook_first(self, sig, handler) ==
    LET st1 == _add_signal_handler(self, sig, Hooks)
        map1 == Put(signal_map, sig, {})
    IN  IF NeedsInstall(sig)
        THEN << [map |-> signal_map, st |-> st1],
                [map |-> map1, st |-> st1],
                [map |-> [map1 EXCEPT ![sig] = @ \cup {handler}], st |-> st1] >>
        ELSE << [map |-> [signal_map EXCEPT ![sig] = @ \cup {handler}], st |-> Hooks] >>

\* The registry and the hooks after each statement of add_signal_handler:
\* after line 58, after line 59 and after line 61 when the signal is new,
\* after line 61 otherwise.  A signal can arrive at each of these points.
add_signal_handler_points(self, sig, handler) ==
    LET st1 == _add_signal_handler(self, sig, Hooks)
        map1 == Put(signal_map, sig, {})
    IN  IF NeedsInstall(sig)
        THEN << [map |-> map1, st |-> Hooks],
                [map |-> map1, st |-> st1],
                [map |-> [map1 EXCEPT ![sig] = @ \cup {handler}], st |-> st1] >>
        ELSE << [map |-> [signal_map EXCEPT ![sig] = @ \cup {handler}], st |-> Hooks] >>

\* Mutant of HandlerSet: the dispatcher fans out to the handlers of every signal.
HandlerSetOfAllSignals(signum) == UNION {signal_map[sig] : sig \in DOMAIN signal_map}

\* self.signal_map[signum]
HandlerSet(signum) == signal_map[signum]

\* The signal arrives: _handle_signal looks the set up and starts iterating.
deliver(sig) ==
    /\ Idle
    /\ \E self \in HookOwners(sig) :
         /\ flight' = IF sig \notin DOMAIN signal_map
                      THEN [NoFlight EXCEPT !.status = "KeyError", !.self = self, !.sig = sig]
                      ELSE [NoFlight EXCEPT !.status = "running", !.self = self, !.sig = sig,
                                            !.used = Cardinality(HandlerSet(sig)),
                                            !.todo = HandlerSet(sig)]
         /\ last' = Call("deliver", self, sig, 0, FALSE, "ok")
    /\ UNCHANGED <<event_loop, signal_map, signal_map_order, replaced_signals,
                   disposition, watchers, installs>>

\* Mutant of after_handler: the call is wrapped in a catch-all and the loop goes on.
after_handler_caught(raises) == "running"

\* handler(signum, frame) is not guarded: what the handler raises leaves the loop.
after_handler(raises) == IF raises THEN "HandlerError" ELSE "running"

\* One step of `for handler in self.signal_map[signum]`: the set iterator
\* raises RuntimeError if the set changed size since the loop started, stops
\* at the end of the set, and otherwise yields a handler, which is called.
handle_signal_next ==
    /\ flight.status = "running"
    /\ IF Cardinality(HandlerSet(flight.sig)) # flight.used
       THEN flight' = [flight EXCEPT !.status = "RuntimeError"]
       ELSE IF flight.todo = {}
       THEN flight' = [flight EXCEPT !.status = "returned"]
       ELSE \E handler \in flight.todo, raises \in BOOLEAN :
              flight' = [flight EXCEPT !.calls = Append(@, handler),
                                       !.todo = @ \ {handler},
                                       !.raised = raises,
                                       !.status = after_handler(raises)]
    /\ last' = Call("next", flight.self, flight.sig, 0, FALSE, "ok")
    /\ UNCHANGED <<event_loop, signal_map, signal_map_order, replaced_signals,
                   disposition, watchers, installs>>

\* ---------------------------------------------------------------- Next

Next ==
    \/ \E self \in Managers, arg \in {"None", "loop"}, running \in BOOLEAN :
          construct(self, arg, running)
    \/ \E self \in Managers, sig \in Signals, handler \in Handlers :
          add_signal_handler(self, sig, handler)
    \/ \E self \in Managers, sig \in Signals, handler \in Handlers :
          remove_signal_handler(self, sig, handler)
    \/ \E self \in Managers : exit(self)
    \/ \E sig \in Signals : deliver(sig)
    \/ handle_signal_next

Spec == Init /\ [][Next]_vars


\* ---------------------------------------------------------------- claims

Range(seq) == {seq[i] : i \in 1..Len(seq)}

Direct(self) == event_loop[self] = "None"

\* The registry, the override table and the installed hooks.
Registrations == <<signal_map, signal_map_order, replaced_signals, disposition, watchers>>

\* C1 (as claimed): after a teardown of a direct-mode manager, every signal
\* whose hook that manager installed (its first add_signal_handler for the
\* signal found the process's original disposition and replaced it) has the
\* original disposition again.
C1_DispositionRestored ==
    (last.op = "exit" /\ Direct(last.self)) =>
        \A sig \in Signals :
            installs[<<last.self, sig>>] > 0 => disposition[sig] = OriginalDisposition(sig)

\* C2: a delivery of S that returns, with the handler set of S unchanged during
\* the delivery and no handler raising, has called every handler in the set of
\* S exactly once and no handler outside it.
C2_FanOutOnce ==
    (flight.status = "returned" /\ ~flight.mutated) =>
        /\ Range(flight.calls) = signal_map[flight.sig]
        /\ Len(flight.calls) = Cardinality(signal_map[flight.sig])

C2_Witness ==
    /\ flight.status = "returned" /\ ~flight.mutated
    /\ Len(flight.calls) = 2
    /\ \E sig \in DOMAIN signal_map : sig # flight.sig /\ signal_map[sig] # {}

\* C3: add_signal_handler(S, h) called when h is already in the handler set of
\* S changes neither the registry nor the override table nor any installed
\* hook, and installs nothing.
C3_AddIdempotent ==
    [][(last'.op = "add" /\ last'.member) =>
           UNCHANGED <<Registrations, installs>>]_vars

C3_Witness ==
    /\ last.op = "add" /\ last.member
    /\ HookOwners(last.sig) # {}

\* C4: remove_signal_handler(S, h) takes h, and only h, out of the handler set
\* of S; a delivery of S only calls handlers that are in the set of S when they
\* are called; only add_signal_handler(S, h) puts h into the set of S; and a
\* delivery that returns with the set untouched has called every handler still
\* registered for S.
C4_RemovedNotInvoked ==
    /\ [](flight.status = "returned" /\ ~flight.mutated
            => signal_map[flight.sig] \subseteq Range(flight.calls))
    /\ [][/\ last'.op = "remove" =>
               signal_map' = IF last'.sig \in DOMAIN signal_map
                             THEN [signal_map EXCEPT ![last'.sig] = @ \ {last'.handler}]
                             ELSE signal_map
          /\ Len(flight'.calls) > Len(flight.calls) =>
               flight'.calls[Len(flight'.calls)] \in signal_map[flight.sig]
          /\ \A sig \in Signals, handler \in Handlers :
               (~IsMember(sig, handler) /\ IsMember(sig, handler)') =>
                   (last'.op = "add" /\ last'.sig = sig /\ last'.handler = handler)
         ]_vars

C4_Witness ==
    /\ last.op = "remove" /\ last.member
    /\ signal_map[last.sig] # {}
    /\ HookOwners(last.sig) # {}

\* C5: remove_signal_handler(S, h) called when S has no registry entry or h is
\* not in the handler set of S raises nothing and changes neither the
\* registry nor the override table nor any installed hook.
C5_RemoveAbsentNoOp ==
    [][(last'.op = "remove" /\ ~last'.member) =>
           (last'.result = "ok" /\ UNCHANGED Registrations)]_vars

C5_Witness ==
    /\ last.op = "remove" /\ ~last.member
    /\ last.sig \in DOMAIN signal_map

\* C6 (as claimed): after a teardown that completed, the registry and the
\* override table are empty and no hook of the manager is installed.
C6_TeardownEmpties ==
    (last.op = "exit" /\ last.result = "ok") =>
        /\ signal_map = EmptyDict
        /\ replaced_signals = EmptyDict
        /\ \A sig \in Signals : last.self \notin HookOwners(sig)

\* C7 (as claimed): a manager that has just been constructed has an empty
\* registry and an empty override table.
C7_EmptyAtConstruction ==
    last.op = "construct" => (signal_map = EmptyDict /\ replaced_signals = EmptyDict)

\* C8: a manager installs its hook for a signal at most once, and the
\* disposition saved in the override table is never a manager's trampoline.
C8_InstallOnce ==
    /\ \A self \in Managers, sig \in Signals : installs[<<self, sig>>] <= 1
    /\ \A sig \in DOMAIN replaced_signals : replaced_signals[sig].kind # "_handle_signal"

C8_Witness ==
    /\ last.op = "add" /\ ~last.member
    /\ installs[<<last.self, last.sig>>] = 1
    /\ Cardinality(signal_map[last.sig]) = 2
    /\ last.sig \in DOMAIN replaced_signals

\* C9: when a handler raises, the delivery ends with that error, the handlers
\* not yet called are not called in that delivery, and the registry, the
\* override table and the hooks stay as they are.
C9_HandlerErrorPropagates ==
    [][/\ (flight'.raised /\ ~flight.raised) =>
             (flight'.status = "HandlerError" /\ UNCHANGED Registrations)
       /\ flight.raised =>
             (flight'.calls = flight.calls \/ flight'.calls = <<>>)
      ]_vars

C9_Witness ==
    /\ flight.status = "HandlerError"
    /\ flight.todo # {}
    /\ signal_map[flight.sig] = Range(flight.calls) \cup flight.todo

\* C10 (as claimed): a signal has a registry entry exactly when a manager has
\* its hook installed for it.
C10_RegistryIffHook ==
    \A sig \in Signals : sig \in DOMAIN signal_map <=> HookOwners(sig) # {}


\* C11 (as claimed): a signal has an entry in the override table exactly when
\* a direct-mode manager has its trampoline installed for it, and the entry
\* holds the disposition that was in effect before the installation.
C11_OverrideIffOwned ==
    \A sig \in Signals :
        /\ sig \in DOMAIN replaced_signals <=>
               \E self \in Managers : Direct(self) /\ disposition[sig] = Trampoline(self)
        /\ sig \in DOMAIN replaced_signals =>
               replaced_signals[sig] = OriginalDisposition(sig)

\* C12: remove_signal_handler changes neither the hooks nor the override
\* table nor the keys of the registry, also when it removes the last handler
\* of a signal; a hook is only ever uninstalled by a teardown; and a delivery
\* of a signal whose handler set is empty returns without calling anything.
C12_RemoveKeepsHook ==
    [][/\ last'.op = "remove" =>
            /\ UNCHANGED <<signal_map_order, replaced_signals, disposition, watchers>>
            /\ DOMAIN signal_map' = DOMAIN signal_map
       /\ \A sig \in Signals :
            (HookOwners(sig) # {} /\ HookOwners(sig)' = {}) => last'.op = "exit"
       /\ (last'.op = "next" /\ flight.status = "running" /\ flight.used = 0) =>
            (flight'.status = "returned" /\ flight'.calls = <<>>)
      ]_vars

C12_Witness ==
    /\ flight.status = "returned"
    /\ flight.calls = <<>>
    /\ signal_map[flight.sig] = {}
    /\ HookOwners(flight.sig) # {}


\* C13: whenever a hook of a manager is installed for a signal, the signal has
\* a registry entry, so the lookup of a delivery never fails; this holds
\* between the calls and after each statement of add_signal_handler.
C13_DispatchFindsEntry ==
    /\ [](/\ \A sig \in Signals : HookOwners(sig) # {} => sig \in DOMAIN signal_map
          /\ flight.status # "KeyError")
    /\ [][last'.op = "add" =>
            LET pts == add_signal_handler_points(last'.self, last'.sig, last'.handler)
                end == pts[Len(pts)]
            IN  /\ \A i \in 1..Len(pts) : \A sig \in Signals :
                      HookOwnersIn(pts[i].st, sig) # {} => sig \in DOMAIN pts[i].map
                /\ end.map = signal_map'
                /\ end.st.disposition = disposition'
                /\ end.st.watchers = watchers'
                /\ end.st.replaced_signals = replaced_signals'
         ]_vars

C13_Witness ==
    /\ last.op = "add" /\ ~last.member
    /\ signal_map[last.sig] = {last.handler}
    /\ signal_map_order[Len(signal_map_order)] = last.sig
    /\ HookOwners(last.sig) = {last.self}


\* C14 (as claimed): a call of add_signal_handler, remove_signal_handler or
\* teardown on one manager leaves the registry and the override table that
\* every other constructed manager sees as they were, and leaves every hook of
\* another manager installed.
C14_OtherManagerUntouched ==
    [][last'.op \in {"add", "remove", "exit"} =>
          \A other \in Managers \ {last'.self} :
              Constructed(other) =>
                  /\ signal_map' = signal_map
                  /\ replaced_signals' = replaced_signals
                  /\ \A sig \in Signals :
                        other \in HookOwners(sig) => other \in HookOwners(sig)'
      ]_vars

\* C15 (as claimed): a teardown that directly follows a completed teardown of
\* the same manager, with a signal registered, raises nothing and changes no
\* disposition and no watcher.
C15_TeardownIdempotent ==
    [][(/\ last.op = "exit" /\ last.result = "ok"
        /\ signal_map # EmptyDict
        /\ last'.op = "exit" /\ last'.self = last.self) =>
           (last'.result = "ok" /\ UNCHANGED <<disposition, watchers>>)
      ]_vars

\* C16 (as claimed, the part that needs no record of the set at the start of
\* the delivery): a delivery during which a handler added or removed a handler
\* of the delivered signal ends in no error unless a handler raised, and calls
\* no handler twice.
C16_InFlightMutationHarmless ==
    (flight.mutated /\ ~flight.raised) =>
        /\ flight.status \in {"running", "returned"}
        /\ Cardinality(Range(flight.calls)) = Len(flight.calls)

====
